---- MODULE Spec2Model ----
(***************************************************************************)
(* A model of the wearipedia device facade (Fitbit_sense) and of the       *)
(* WHOOP vendor client (WhoopUser).                                        *)
(*                                                                         *)
(*   Spec      one Fitbit_sense device: construction, authentication and   *)
(*             get_data in synthetic and in real mode.                     *)
(*   SpecPair  two Fitbit_sense devices sharing the process-wide seeded    *)
(*             random generator.                                           *)
(*   SpecWhoop one WhoopUser client: login, the table-building getters and *)
(*             the heart-rate range splitting.                             *)
(*                                                                         *)
(* Dates are the "%Y-%m-%d" strings of the source; strptime is modelled by *)
(* date_str_to_obj, which maps a string to its day ordinal counted from    *)
(* 2022-03-01.  Python dicts are TLA+ records/functions: a key that is not *)
(* in DOMAIN raises KeyError.                                              *)
(***************************************************************************)
EXTENDS Integers, Sequences, FiniteSets, TLC

VARIABLES
    devs,       \* Fitbit_sense objects: device id -> object state
    rng,        \* the process-wide random generator state (seed_everything)
    given,      \* device id -> the arguments its constructor was called with
    last,       \* the last get_data call: its arguments and what it did
    whoop,      \* the WhoopUser object under construction / constructed
    http,       \* every HTTP request the client has sent, in order
    wlast       \* the last WhoopUser getter call: its arguments and result

vars == <<devs, rng, given, last, whoop, http, wlast>>

(***************************************************************************)
(* Bounds of the model.                                                    *)
(***************************************************************************)
MaxSeed == 1        \* seeds given to the constructor: 0..MaxSeed
MaxDate == 1        \* dates given by callers: the first MaxDate+1 calendar days

(***************************************************************************)
(* Calendar dates.                                                         *)
(***************************************************************************)
Calendar ==
    <<"2022-03-01", "2022-03-02", "2022-03-03", "2022-03-04", "2022-03-05">>

\* datetime.strptime(x, "%Y-%m-%d"), as a day ordinal relative to 2022-03-01
date_str_to_obj(x) ==
    CASE x = "2022-04-24" -> 54
      [] x = "2022-04-28" -> 58
      [] x = "2022-06-17" -> 108
      [] OTHER -> (CHOOSE i \in 1..Len(Calendar) : Calendar[i] = x) - 1

Dates == {Calendar[i] : i \in 1..(MaxDate + 1)}
Seeds == 0..MaxSeed

None == [none |-> TRUE]

(***************************************************************************)
(* Fitbit_sense                                                            *)
(***************************************************************************)

\* a declaration that leaves out the last data type
valid_data_types_removed ==
    {"sleep", "steps", "minutesVeryActive", "minutesLightlyActive",
     "minutesFairlyActive", "distance", "minutesSedentary",
     "heart_rate_day", "hrv"}

\* the data types Fitbit_sense.__init__ hands to _initialize_device_params
valid_data_types ==
    {"sleep", "steps", "minutesVeryActive", "minutesLightlyActive",
     "minutesFairlyActive", "distance", "minutesSedentary",
     "heart_rate_day", "hrv", "distance_day"}

\* the keys of syn_data that _gen_synthetic stores on the object
SynDataKeys ==
    {"sleep", "steps", "minutesVeryActive", "minutesFairlyActive",
     "minutesLightlyActive", "distance", "minutesSedentary",
     "heart_rate_day", "hrv", "distance_day"}

\* the data types callers ask for: the declared ones and one no device declares
DataTypeInputs ==
    {"sleep", "steps", "minutesVeryActive", "minutesLightlyActive",
     "minutesFairlyActive", "distance", "minutesSedentary",
     "heart_rate_day", "hrv", "distance_day", "spo2"}

EmptySeries == [t \in SynDataKeys |-> <<>>]

\* BaseDevice._initialize_device_params: stores the declared types and the
\* configuration, and seeds the process-wide generator (seed_everything)
_initialize_device_params(data_types, params, default_params) ==
    [constructed |-> TRUE,
     valid_data_types |-> data_types,
     init_params |-> [k \in DOMAIN default_params |->
                        IF k \in DOMAIN params THEN params[k] ELSE default_params[k]],
     synthetic_has_been_generated |-> FALSE,
     authenticated |-> FALSE,
     user |-> "",
     syn |-> EmptySeries]

\* Fitbit_sense.__init__
Fitbit_sense_init(seed, synthetic_start_date, synthetic_end_date) ==
    _initialize_device_params(
        valid_data_types,
        [seed |-> seed,
         synthetic_start_date |-> synthetic_start_date,
         synthetic_end_date |-> synthetic_end_date],
        [seed |-> 0,
         synthetic_start_date |-> "2022-03-01",
         synthetic_end_date |-> "2022-06-17"])

\* Fitbit_sense._default_params
_default_params == [start_date |-> "2022-04-24", end_date |-> "2022-04-28"]

\* the object before its constructor has run
NoDevice ==
    [constructed |-> FALSE,
     valid_data_types |-> {},
     init_params |-> [seed |-> 0, synthetic_start_date |-> "", synthetic_end_date |-> ""],
     synthetic_has_been_generated |-> FALSE,
     authenticated |-> FALSE,
     user |-> "",
     syn |-> EmptySeries]

\* seed_everything(seed): the next draw of the generator is decided by seed
seed_everything(seed) == seed

\* the field that carries a record's date
DateField(data_type) == IF data_type = "sleep" THEN "dateOfSleep" ELSE "dateTime"

\* one generated record of data_type for calendar day n, drawn with generator state r
SynRecord(data_type, n, r) ==
    IF data_type = "sleep"
    THEN [dateOfSleep |-> Calendar[n + 1], minutesAsleep |-> 10 * (r + 1) + n]
    ELSE [dateTime |-> Calendar[n + 1], value |-> 10 * (r + 1) + n]

\* create_syn_data(start_date, end_date): one record per day and type, drawn
\* from the process-wide generator, which it advances
create_syn_data(start_date, end_date, r) ==
    LET s == date_str_to_obj(start_date)
        e == date_str_to_obj(end_date)
    IN  [data |-> [t \in SynDataKeys |->
                     IF e < s THEN <<>>
                     ELSE [i \in 1..(e - s + 1) |-> SynRecord(t, s + i - 1, r)]],
         rng |-> r + 1]

\* a generator wrapper that also rewrites the stored start date
_gen_synthetic_rewrites(self, r) ==
    LET syn_data == create_syn_data(self.init_params["synthetic_start_date"],
                                    self.init_params["synthetic_end_date"], r)
    IN  [self |-> [self EXCEPT !.syn = syn_data.data,
                               !.init_params["synthetic_start_date"] = Calendar[1]],
         rng |-> syn_data.rng]

\* Fitbit_sense._gen_synthetic
_gen_synthetic(self, r) ==
    LET syn_data == create_syn_data(self.init_params["synthetic_start_date"],
                                    self.init_params["synthetic_end_date"], r)
    IN  [self |-> [self EXCEPT !.syn = syn_data.data],
         rng |-> syn_data.rng]

\* data[a:b] of Python for 0 <= a
Slice(data, a, b) ==
    LET hi == IF b > Len(data) THEN Len(data) ELSE b
    IN  IF hi <= a THEN <<>> ELSE [i \in 1..(hi - a) |-> data[a + i]]

\* a filter that slices with an exclusive end index
_filter_synthetic_slice(self, data, data_type, params) ==
    LET synthetic_start == date_str_to_obj(self.init_params["synthetic_start_date"])
        start_idx == date_str_to_obj(params["start_date"]) - synthetic_start
        end_idx == date_str_to_obj(params["end_date"]) - synthetic_start
    IN  Slice(data, start_idx, end_idx)

\* Fitbit_sense._filter_synthetic: start_idx and end_idx are computed and
\* not used; the series is returned whole
_filter_synthetic(self, data, data_type, params) ==
    LET synthetic_start == date_str_to_obj(self.init_params["synthetic_start_date"])
        start_idx == date_str_to_obj(params["start_date"]) - synthetic_start
        end_idx == date_str_to_obj(params["end_date"]) - synthetic_start
    IN  data

\* fetch_real_data(data_type, user, start_date, end_date)
fetch_real_data(data_type, user, start_date, end_date) ==
    <<[dateTime |-> start_date, value |-> 0], [dateTime |-> end_date, value |-> 0]>>

\* Fitbit_sense._get_real: the window is read from init_params, which holds
\* seed, synthetic_start_date and synthetic_end_date only
_get_real(self, data_type, params) ==
    IF "start_date" \in DOMAIN self.init_params /\ "end_date" \in DOMAIN self.init_params
    THEN [raised |-> "",
          fetched |-> <<[start_date |-> self.init_params["start_date"],
                         end_date |-> self.init_params["end_date"]]>>,
          ret |-> fetch_real_data(data_type, self.user,
                                  self.init_params["start_date"],
                                  self.init_params["end_date"])]
    ELSE [raised |-> "KeyError", fetched |-> <<>>, ret |-> <<>>]

\* BaseDevice.get_data
get_data(self, r, data_type, params) ==
    LET p == IF params = None THEN _default_params ELSE params
    IN  IF data_type \notin self.valid_data_types
        THEN [self |-> self, rng |-> r, raised |-> "UnsupportedDataType",
              ret |-> <<>>, fetched |-> <<>>]
        ELSE IF self.authenticated
        THEN LET g == _get_real(self, data_type, p)
             IN  [self |-> self, rng |-> r, raised |-> g.raised,
                  ret |-> g.ret, fetched |-> g.fetched]
        ELSE LET gen == IF self.synthetic_has_been_generated
                        THEN [self |-> self, rng |-> r]
                        ELSE LET g == _gen_synthetic(self, r)
                             IN  [self |-> [g.self EXCEPT
                                              !.synthetic_has_been_generated = TRUE],
                                  rng |-> g.rng]
             IN  [self |-> gen.self, rng |-> gen.rng, raised |-> "",
                  ret |-> _filter_synthetic(gen.self, gen.self.syn[data_type],
                                            data_type, p),
                  fetched |-> <<>>]

\* Fitbit_sense._authenticate, reached through BaseDevice.authenticate
_authenticate(self, token) == [self EXCEPT !.user = token, !.authenticated = TRUE]

(***************************************************************************)
(* WhoopUser                                                               *)
(*                                                                         *)
(* Timestamps are the "%Y-%m-%dT%H:%M:%S.fffZ" strings of the source, held *)
(* as [t, ms]: t counts ticks (TicksPerDay to the day) from                *)
(* 2022-04-24T00:00:00 and ms is the fraction after the point.             *)
(*                                                                         *)
(* A vendor JSON record is held as [id, missing, null]: the record has     *)
(* every field of a well-formed record except the paths in missing, and    *)
(* the paths in null hold None (an empty list for list fields).  A path is *)
(* the sequence of keys that leads to the field.                           *)
(***************************************************************************)
TicksPerDay == 2    \* resolution of the clock
MaxRecords == 2     \* records in one vendor response

Stamp(t, ms) == [t |-> t, ms |-> ms]

\* default_params: 2000-01-01 to 2030-01-01
default_params ==
    [start |-> Stamp((0 - 8149) * TicksPerDay, 0), end |-> Stamp(2809 * TicksPerDay, 0)]

\* default_params_hr: 2022-04-24 to 2022-04-28
default_params_hr ==
    [start |-> Stamp(0, 0), end |-> Stamp(4 * TicksPerDay, 0)]

\* a login that sends the request again before it gives up
login_retries(self, email, password, resp) ==
    LET post == [method |-> "POST", url |-> self.AUTH_URL,
                 params |-> [password |-> password, username |-> email],
                 headers |-> None]
    IN  IF Len(email) = 0
        THEN [self |-> [k \in DOMAIN self \cup {"token", "user_id"} |->
                          IF k \in {"token", "user_id"} THEN "" ELSE self[k]],
              raised |-> "", sent |-> <<>>]
        ELSE IF resp.status_code # 200
        THEN [self |-> self, raised |-> "AssertionError", sent |-> <<post, post>>]
        ELSE [self |-> [k \in DOMAIN self \cup {"token", "user_id"} |->
                          IF k = "token" THEN resp.access_token
                          ELSE IF k = "user_id" THEN resp.user_id ELSE self[k]],
              raised |-> "", sent |-> <<post>>]

\* a login that does not look at the status and goes on with an empty token
login_unchecked(self, email, password, resp) ==
    LET post == [method |-> "POST", url |-> self.AUTH_URL,
                 params |-> [password |-> password, username |-> email],
                 headers |-> None]
    IN  IF Len(email) = 0
        THEN [self |-> [k \in DOMAIN self \cup {"token", "user_id"} |->
                          IF k \in {"token", "user_id"} THEN "" ELSE self[k]],
              raised |-> "", sent |-> <<>>]
        ELSE [self |-> [k \in DOMAIN self \cup {"token", "user_id"} |->
                          IF k = "token"
                          THEN (IF resp.status_code = 200 THEN resp.access_token ELSE "")
                          ELSE IF k = "user_id"
                          THEN (IF resp.status_code = 200 THEN resp.user_id ELSE "")
                          ELSE self[k]],
              raised |-> "", sent |-> <<post>>]

\* WhoopUser.login
login(self, email, password, resp) ==
    LET post == [method |-> "POST", url |-> self.AUTH_URL,
                 params |-> [password |-> password, username |-> email],
                 headers |-> None]
    IN  IF Len(email) = 0
        THEN [self |-> [k \in DOMAIN self \cup {"token", "user_id"} |->
                          IF k \in {"token", "user_id"} THEN "" ELSE self[k]],
              raised |-> "", sent |-> <<>>]
        ELSE IF resp.status_code # 200
        THEN [self |-> self, raised |-> "AssertionError", sent |-> <<post>>]
        ELSE [self |-> [k \in DOMAIN self \cup {"token", "user_id"} |->
                          IF k = "token" THEN resp.access_token
                          ELSE IF k = "user_id" THEN resp.user_id ELSE self[k]],
              raised |-> "", sent |-> <<post>>]

\* WhoopUser.__init__: the attributes set before login, login, and the
\* attributes set after it when login returned
WhoopUser_init(email, password, resp) ==
    LET self0 == [BASE_URL |-> <<"api-7.whoop.com">>,
                  AUTH_URL |-> <<"api-7.whoop.com", "oauth/token">>]
        l == login(self0, email, password, resp)
    IN  IF l.raised # ""
        THEN l
        ELSE [self |-> [k \in DOMAIN l.self \cup {"header", "CYCLES_URL",
                                                  "HEART_RATE_URL",
                                                  "HEALTH_METRICS_URL", "SEED"} |->
                          CASE k = "header" -> [Authorization |-> <<"bearer", l.self.token>>]
                            [] k = "CYCLES_URL" -> <<"users", l.self.user_id, "cycles">>
                            [] k = "HEART_RATE_URL" ->
                                 <<"api-7.whoop.com", "users", l.self.user_id,
                                   "metrics/heart_rate">>
                            [] k = "HEALTH_METRICS_URL" ->
                                 <<"api.prod.whoop.com", "coaching-service/v1/health/metrics">>
                            [] k = "SEED" -> <<"1">>
                            [] OTHER -> l.self[k]],
              raised |-> "", sent |-> l.sent]

\* requests.get(url, params=params, headers=headers)
Get(url, params, headers) ==
    [method |-> "GET", url |-> url, params |-> params, headers |-> headers]

\* one step of a getter over one record: a subscript ("sub"), a subscript
\* whose value is tested for truth or for None ("true"), a subscript whose
\* value is used as a string ("use"), or a membership test ("in"); g names
\* the field whose None value switches the step off
S(k, p) == [k |-> k, p |-> p, g |-> <<>>]
G(k, p, g) == [k |-> k, p |-> p, g |-> g]

Parent(p) == SubSeq(p, 1, Len(p) - 1)

\* what one step does with a record: go on, leave the record out, or raise
StepResult(rec, st) ==
    IF st.g # <<>> /\ st.g \in rec.null THEN "next"
    ELSE IF st.k = "in" THEN (IF st.p \in rec.missing THEN "skip" ELSE "next")
    ELSE IF Len(st.p) > 1 /\ Parent(st.p) \in rec.null THEN "TypeError"
    ELSE IF st.p \in rec.missing THEN "KeyError"
    ELSE IF st.k = "true" /\ st.p \in rec.null THEN "skip"
    ELSE IF st.k = "use" /\ st.p \in rec.null THEN "TypeError"
    ELSE "next"

RECURSIVE RunSteps(_, _, _)
\* the body of a getter's loop on one record: "row", "skip" or the error raised
RunSteps(rec, prog, i) ==
    IF i > Len(prog) THEN "row"
    ELSE LET r == StepResult(rec, prog[i])
         IN  IF r = "next" THEN RunSteps(rec, prog, i + 1) ELSE r

RECURSIVE BuildRows(_, _, _, _)
\* a getter's loop over the records of a response: the rows appended (by
\* record id), or the first error, which ends the call
BuildRows(json_data, prog, i, rows) ==
    IF i > Len(json_data) THEN [raised |-> "", rows |-> rows]
    ELSE LET r == RunSteps(json_data[i], prog, 1)
         IN  IF r = "row" THEN BuildRows(json_data, prog, i + 1,
                                         Append(rows, json_data[i].id))
             ELSE IF r = "skip" THEN BuildRows(json_data, prog, i + 1, rows)
             ELSE [raised |-> r, rows |-> <<>>]

\* the lookups of get_cycles_df on one day, in the order the code makes them
get_cycles_df_steps ==
    << S("true", <<"recovery">>),
       S("in", <<"recovery", "timestamp">>),
       S("in", <<"recovery", "heartRateVariabilityRmssd">>),
       S("true", <<"recovery", "heartRateVariabilityRmssd">>),
       S("true", <<"sleep">>),
       S("true", <<"sleep", "sleeps">>),
       S("true", <<"sleep", "sleeps", "0", "timezoneOffset">>),
       S("sub", <<"id">>),
       S("sub", <<"days">>),
       S("sub", <<"sleep", "naps">>),
       S("sub", <<"recovery", "restingHeartRate">>),
       S("sub", <<"recovery", "score">>),
       S("sub", <<"sleep", "needBreakdown">>),
       G("sub", <<"sleep", "needBreakdown", "baseline">>, <<"sleep", "needBreakdown">>),
       G("sub", <<"sleep", "needBreakdown", "debt">>, <<"sleep", "needBreakdown">>),
       G("sub", <<"sleep", "needBreakdown", "strain">>, <<"sleep", "needBreakdown">>),
       G("sub", <<"sleep", "needBreakdown", "total">>, <<"sleep", "needBreakdown">>),
       S("sub", <<"sleep", "qualityDuration">>),
       S("sub", <<"strain">>),
       S("sub", <<"strain", "averageHeartRate">>),
       S("sub", <<"strain", "kilojoules">>),
       S("sub", <<"strain", "maxHeartRate">>),
       S("sub", <<"strain", "score">>) >>

\* a sleeps loop that leaves out a sleep without a score
get_sleeps_df_steps_lenient ==
    << S("sub", <<"sleep">>),
       S("true", <<"sleep", "id">>),
       S("sub", <<"sleep", "naps">>),
       S("true", <<"sleep", "sleeps">>),
       S("sub", <<"id">>),
       S("sub", <<"sleep", "sleeps", "0", "id">>),
       S("sub", <<"sleep", "sleeps", "0", "cyclesCount">>),
       S("sub", <<"sleep", "sleeps", "0", "disturbanceCount">>),
       S("sub", <<"sleep", "sleeps", "0", "timezoneOffset">>),
       S("sub", <<"sleep", "sleeps", "0", "during">>),
       S("sub", <<"sleep", "sleeps", "0", "during", "upper">>),
       S("use", <<"sleep", "sleeps", "0", "timezoneOffset">>),
       S("sub", <<"sleep", "sleeps", "0", "during", "lower">>),
       S("sub", <<"sleep", "sleeps", "0", "isNap">>),
       S("sub", <<"sleep", "sleeps", "0", "inBedDuration">>),
       S("sub", <<"sleep", "sleeps", "0", "lightSleepDuration">>),
       S("sub", <<"sleep", "sleeps", "0", "latencyDuration">>),
       S("sub", <<"sleep", "sleeps", "0", "noDataDuration">>),
       S("sub", <<"sleep", "sleeps", "0", "remSleepDuration">>),
       S("sub", <<"sleep", "sleeps", "0", "respiratoryRate">>),
       S("in", <<"sleep", "sleeps", "0", "score">>),
       S("sub", <<"sleep", "sleeps", "0", "sleepEfficiency">>),
       S("sub", <<"sleep", "sleeps", "0", "sleepConsistency">>),
       S("sub", <<"sleep", "sleeps", "0", "slowWaveSleepDuration">>),
       S("sub", <<"sleep", "sleeps", "0", "wakeDuration">>),
       S("sub", <<"sleep", "sleeps", "0", "qualityDuration">>) >>

\* the lookups of get_sleeps_df on one day and on its sleep
get_sleeps_df_steps ==
    << S("sub", <<"sleep">>),
       S("true", <<"sleep", "id">>),
       S("sub", <<"sleep", "naps">>),
       S("true", <<"sleep", "sleeps">>),
       S("sub", <<"id">>),
       S("sub", <<"sleep", "sleeps", "0", "id">>),
       S("sub", <<"sleep", "sleeps", "0", "cyclesCount">>),
       S("sub", <<"sleep", "sleeps", "0", "disturbanceCount">>),
       S("sub", <<"sleep", "sleeps", "0", "timezoneOffset">>),
       S("sub", <<"sleep", "sleeps", "0", "during">>),
       S("sub", <<"sleep", "sleeps", "0", "during", "upper">>),
       S("use", <<"sleep", "sleeps", "0", "timezoneOffset">>),
       S("sub", <<"sleep", "sleeps", "0", "during", "lower">>),
       S("sub", <<"sleep", "sleeps", "0", "isNap">>),
       S("sub", <<"sleep", "sleeps", "0", "inBedDuration">>),
       S("sub", <<"sleep", "sleeps", "0", "lightSleepDuration">>),
       S("sub", <<"sleep", "sleeps", "0", "latencyDuration">>),
       S("sub", <<"sleep", "sleeps", "0", "noDataDuration">>),
       S("sub", <<"sleep", "sleeps", "0", "remSleepDuration">>),
       S("sub", <<"sleep", "sleeps", "0", "respiratoryRate">>),
       S("sub", <<"sleep", "sleeps", "0", "score">>),
       S("sub", <<"sleep", "sleeps", "0", "sleepEfficiency">>),
       S("sub", <<"sleep", "sleeps", "0", "sleepConsistency">>),
       S("sub", <<"sleep", "sleeps", "0", "slowWaveSleepDuration">>),
       S("sub", <<"sleep", "sleeps", "0", "wakeDuration">>),
       S("sub", <<"sleep", "sleeps", "0", "qualityDuration">>) >>

\* the lookups of get_workouts_df on one day and on its workout
get_workouts_df_steps ==
    << S("sub", <<"id">>),
       S("sub", <<"strain">>),
       S("true", <<"strain", "workouts">>),
       S("sub", <<"strain", "workouts", "0", "id">>),
       S("sub", <<"strain", "workouts", "0", "averageHeartRate">>),
       S("sub", <<"strain", "workouts", "0", "cumulativeWorkoutStrain">>),
       S("sub", <<"strain", "workouts", "0", "during">>),
       S("sub", <<"strain", "workouts", "0", "during", "upper">>),
       S("sub", <<"strain", "workouts", "0", "during", "lower">>),
       S("sub", <<"strain", "workouts", "0", "kilojoules">>),
       S("sub", <<"strain", "workouts", "0", "score">>),
       S("sub", <<"strain", "workouts", "0", "sportId">>),
       S("sub", <<"strain", "workouts", "0", "source">>),
       S("sub", <<"strain", "workouts", "0", "zones">>) >>

\* WhoopUser.get_cycles_json: the request it sends
get_cycles_json(self, params) ==
    Get(<<"api-7.whoop.com", "users", self.user_id, "cycles">>, params, self.header)

\* WhoopUser.get_cycles_df
get_cycles_df(self, params, json_data) ==
    LET b == BuildRows(json_data, get_cycles_df_steps, 1, <<>>)
    IN  [raised |-> b.raised, rows |-> b.rows, sent |-> <<get_cycles_json(self, params)>>]

\* WhoopUser.get_sleeps_df
get_sleeps_df(self, params, cycles_data) ==
    LET b == BuildRows(cycles_data, get_sleeps_df_steps, 1, <<>>)
    IN  [raised |-> b.raised, rows |-> b.rows, sent |-> <<get_cycles_json(self, params)>>]

\* WhoopUser.get_workouts_df: get_cycles_json() is called without params
get_workouts_df(self, params, cycles_data) ==
    LET b == BuildRows(cycles_data, get_workouts_df_steps, 1, <<>>)
    IN  [raised |-> b.raised, rows |-> b.rows,
         sent |-> <<get_cycles_json(self, default_params)>>]

\* the lookups of get_health_metrics_df on one metrics response
get_health_metrics_df_steps ==
    << S("sub", <<"health_monitor_metrics">>),
       G("sub", <<"health_monitor_metrics", "0", "metric">>,
                <<"health_monitor_metrics">>),
       G("sub", <<"health_monitor_metrics", "0", "current_value">>,
                <<"health_monitor_metrics">>),
       G("sub", <<"health_monitor_metrics", "0", "current_deviation">>,
                <<"health_monitor_metrics">>) >>

\* WhoopUser.get_health_metrics_json: the request it sends
get_health_metrics_json(self, cycle_id) ==
    Get(<<self.HEALTH_METRICS_URL, cycle_id>>, None, self.header)

\* WhoopUser.get_health_metrics_df: ids and days are read from every cycle
\* before the first metrics request is sent
get_health_metrics_df(self, params, json_data, data) ==
    LET cyc == get_cycles_json(self, params)
        ids == BuildRows(json_data, <<S("sub", <<"id">>)>>, 1, <<>>)
        days == BuildRows(json_data, <<S("sub", <<"days">>)>>, 1, <<>>)
    IN  IF ids.raised # "" THEN [raised |-> ids.raised, rows |-> <<>>, sent |-> <<cyc>>]
        ELSE IF days.raised # "" THEN [raised |-> days.raised, rows |-> <<>>, sent |-> <<cyc>>]
        ELSE LET b == BuildRows(data, get_health_metrics_df_steps, 1, <<>>)
             IN  [raised |-> b.raised, rows |-> b.rows,
                  sent |-> <<cyc>> \o [i \in 1..Len(ids.rows) |->
                                         get_health_metrics_json(self, ids.rows[i])]]

\* ceil(days / 7) of Python for an integer days
CeilWeeks(days) == (days + 6) \div 7

\* a split whose segments are eight days long, the range the docstring names
split_into_weeklong_params_eight(params, now) ==
    LET end0 == params["end"].t
        start == params["start"].t
        end == IF end0 > now THEN now ELSE end0
        days == (end - start) \div TicksPerDay
        n == CeilWeeks(days)
    IN  IF n <= 0 THEN <<>>
        ELSE [i \in 1..n |->
                [start |-> Stamp(start + 7 * (i - 1) * TicksPerDay, 0),
                 end |-> Stamp(start + (7 * (i - 1) + 8) * TicksPerDay, 0)]]

\* split_into_weeklong_params: both stamps are parsed without their
\* fraction, end is cut to now, and timedelta.days counts whole days
split_into_weeklong_params(params, now) ==
    LET end0 == params["end"].t
        start == params["start"].t
        end == IF end0 > now THEN now ELSE end0
        days == (end - start) \div TicksPerDay
        n == CeilWeeks(days)
    IN  IF n <= 0 THEN <<>>
        ELSE [i \in 1..n |->
                [start |-> Stamp(start + 7 * (i - 1) * TicksPerDay, 0),
                 end |-> Stamp(start + 7 * i * TicksPerDay, 0)]]

\* WhoopUser.get_heart_rate_json: the request it sends
get_heart_rate_json(self, params) == Get(self.HEART_RATE_URL, params, self.header)

\* the lookups of get_heart_rate_df on one tick
get_heart_rate_df_steps ==
    << S("sub", <<"values", "0", "data">>),
       S("sub", <<"values", "0", "time">>) >>

\* WhoopUser.get_heart_rate_df: one request per segment, each response's
\* "values" read before the next request; the ticks are turned into rows
\* after the last response
get_heart_rate_df(self, params, now, resps) ==
    LET split_params == split_into_weeklong_params(params, now)
        n == Len(split_params)
        bad == {k \in 1..n : <<"values">> \in resps[k].missing}
        stop == IF bad = {} THEN n ELSE CHOOSE k \in bad : \A j \in bad : k <= j
        sent == [k \in 1..stop |-> get_heart_rate_json(self, split_params[k])]
        ticks == SelectSeq(SubSeq(resps, 1, n), LAMBDA r : <<"values">> \notin r.null)
    IN  IF bad # {}
        THEN [raised |-> "KeyError", rows |-> <<>>, sent |-> sent, split |-> split_params]
        ELSE LET b == BuildRows(ticks, get_heart_rate_df_steps, 1, <<>>)
             IN  [raised |-> b.raised, rows |-> b.rows, sent |-> sent,
                  split |-> split_params]

(***************************************************************************)
(* Inputs of the vendor client.                                            *)
(***************************************************************************)
Emails == {"", "user@example.com"}

LoginResponses ==
    {[status_code |-> 200, access_token |-> tk, user_id |-> "u7"] : tk \in {"tokA", "tokB"}}
        \cup {[status_code |-> 401]}

\* a caller's own window for the cycles endpoint
OwnParams == [start |-> Stamp(0, 0), end |-> Stamp(TicksPerDay, 0)]

StepPaths(prog) == {prog[i].p : i \in 1..Len(prog)}

\* the fields whose None or empty value the getters test for
NullablePaths ==
    {<<"recovery">>, <<"recovery", "heartRateVariabilityRmssd">>, <<"sleep">>,
     <<"sleep", "id">>, <<"sleep", "sleeps">>,
     <<"sleep", "sleeps", "0", "timezoneOffset">>, <<"sleep", "needBreakdown">>,
     <<"strain", "workouts">>, <<"health_monitor_metrics">>, <<"values">>}

WellFormed(i) == [id |-> i, missing |-> {}, null |-> {}]

\* the records that depart from a well-formed one in one field a getter reads
Variants(prog) ==
    {[id |-> 0, missing |-> {p}, null |-> {}] : p \in StepPaths(prog)}
        \cup {[id |-> 0, missing |-> {}, null |-> {p}] :
                p \in {q \in NullablePaths :
                         q \in StepPaths(prog) \/ \E r \in StepPaths(prog) : Parent(r) = q}}

\* responses of up to MaxRecords well-formed records
WellFormedResponses == {[i \in 1..n |-> WellFormed(i)] : n \in 0..MaxRecords}

\* responses of up to MaxRecords records, one of them not well-formed
OddResponses(variants) ==
    {[i \in 1..n |-> IF i = k THEN [v EXCEPT !.id = i] ELSE WellFormed(i)] :
        n \in 1..MaxRecords, k \in 1..MaxRecords, v \in variants}

\* the calls of a getter of the cycles endpoint: any response with the
\* default window, a well-formed response with the caller's own window too
CycleCalls(prog) ==
    {<<default_params, r>> : r \in WellFormedResponses \cup OddResponses(Variants(prog))}
        \cup {<<OwnParams, r>> : r \in WellFormedResponses}

HealthCycleSteps == <<S("sub", <<"id">>), S("sub", <<"days">>)>>

HeartRateSteps == <<S("sub", <<"values">>)>> \o get_heart_rate_df_steps

MaxTick == 17       \* heart-rate requests end at most MaxTick ticks after the epoch

HeartRateParams ==
    {[start |-> Stamp(a, 0), end |-> Stamp(b, ms)] :
        a \in {0, 1}, b \in 0..MaxTick, ms \in {0, 500}}
        \cup {default_params_hr}

\* datetime.now(): before the end of the request, or after it
NowInputs == {TicksPerDay + 1, MaxTick + 1}

NoCall ==
    [dev |-> "none", data_type |-> "", params |-> None, real |-> FALSE,
     raised |-> "nocall", ret |-> <<>>, fetched |-> <<>>,
     before |-> NoDevice, after |-> NoDevice, rng_before |-> 0, rng_after |-> 0]

Windows == {[start_date |-> a, end_date |-> b] : a \in Dates, b \in Dates}

Construct(d, seed, a, b) ==
    /\ ~devs[d].constructed
    /\ devs' = [devs EXCEPT ![d] = Fitbit_sense_init(seed, a, b)]
    /\ rng' = seed_everything(seed)
    /\ given' = [given EXCEPT ![d] = [seed |-> seed, synthetic_start_date |-> a,
                                      synthetic_end_date |-> b]]
    /\ UNCHANGED <<last, whoop, http, wlast>>

Authenticate(d, token) ==
    /\ devs[d].constructed
    /\ ~devs[d].authenticated
    /\ devs' = [devs EXCEPT ![d] = _authenticate(devs[d], token)]
    /\ UNCHANGED <<rng, given, last, whoop, http, wlast>>

GetData(d, data_type, params) ==
    /\ devs[d].constructed
    /\ LET g == get_data(devs[d], rng, data_type, params)
       IN  /\ devs' = [devs EXCEPT ![d] = g.self]
           /\ rng' = g.rng
           /\ last' = [dev |-> d, data_type |-> data_type, params |-> params,
                       real |-> devs[d].authenticated, raised |-> g.raised,
                       ret |-> g.ret, fetched |-> g.fetched,
                       before |-> devs[d], after |-> g.self,
                       rng_before |-> rng, rng_after |-> g.rng]
    /\ UNCHANGED <<given, whoop, http, wlast>>

NoGetter ==
    [getter |-> "none", params |-> None, now |-> 0, response |-> <<>>,
     data |-> <<>>, raised |-> "nocall", rows |-> <<>>, split |-> <<>>]

\* the Authorization values of the GET requests among sent
GetAuths(sent) ==
    {sent[i].headers.Authorization : i \in {j \in 1..Len(sent) : sent[j].method = "GET"}}

WhoopConstruct(email, password, resp) ==
    /\ whoop.phase = "new"
    /\ LET c == WhoopUser_init(email, password, resp)
       IN  /\ whoop' = [phase |-> IF c.raised = "" THEN "ready" ELSE "failed",
                        email |-> email,
                        status |-> IF Len(c.sent) = 0 THEN 0 ELSE resp.status_code,
                        raised |-> c.raised,
                        self |-> c.self]
           /\ http' = [posts |-> Len(c.sent),
                       granted |-> IF Len(c.sent) > 0 /\ resp.status_code = 200
                                   THEN {resp.access_token} ELSE {},
                       get_auths |-> {},
                       sent |-> c.sent]
    /\ UNCHANGED <<devs, rng, given, last, wlast>>

\* a getter call: the requests go out, the result is what the caller sees
Called(name, params, now, response, data, g, split) ==
    /\ http' = [http EXCEPT !.sent = g.sent,
                            !.get_auths = @ \cup GetAuths(g.sent)]
    /\ wlast' = [getter |-> name, params |-> params, now |-> now,
                 response |-> response, data |-> data, raised |-> g.raised,
                 rows |-> g.rows, split |-> split]
    /\ UNCHANGED <<devs, rng, given, last, whoop>>

GetCyclesDf(params, json_data) ==
    /\ whoop.phase = "ready"
    /\ Called("get_cycles_df", params, 0, json_data, <<>>,
              get_cycles_df(whoop.self, params, json_data), <<>>)

GetSleepsDf(params, cycles_data) ==
    /\ whoop.phase = "ready"
    /\ Called("get_sleeps_df", params, 0, cycles_data, <<>>,
              get_sleeps_df(whoop.self, params, cycles_data), <<>>)

GetWorkoutsDf(params, cycles_data) ==
    /\ whoop.phase = "ready"
    /\ Called("get_workouts_df", params, 0, cycles_data, <<>>,
              get_workouts_df(whoop.self, params, cycles_data), <<>>)

GetHealthMetricsDf(params, json_data, data) ==
    /\ whoop.phase = "ready"
    /\ Len(data) = Len(json_data)
    /\ Called("get_health_metrics_df", params, 0, json_data, data,
              get_health_metrics_df(whoop.self, params, json_data, data), <<>>)

GetHeartRateDf(params, now, resps) ==
    /\ whoop.phase = "ready"
    /\ Len(resps) = Len(split_into_weeklong_params(params, now))
    /\ LET g == get_heart_rate_df(whoop.self, params, now, resps)
       IN  Called("get_heart_rate_df", params, now, resps, <<>>, g, g.split)

WhoopNew ==
    [phase |-> "new", email |-> "", status |-> 0, raised |-> "", self |-> None]


Init ==
    /\ devs = [d \in {"d1", "d2"} |-> NoDevice]
    /\ rng = 0
    /\ given = [d \in {"d1", "d2"} |-> NoDevice.init_params]
    /\ last = NoCall
    /\ whoop = WhoopNew
    /\ http = [posts |-> 0, granted |-> {}, get_auths |-> {}, sent |-> <<>>]
    /\ wlast = NoGetter

Next ==
    \/ \E seed \in Seeds, a \in Dates, b \in Dates : Construct("d1", seed, a, b)
    \/ Authenticate("d1", "fitbit-token")
    \/ \E t \in DataTypeInputs, p \in Windows \cup {None} : GetData("d1", t, p)

Spec == Init /\ [][Next]_vars

\* Two devices in one process; callers ask for two of the data types.
PairTypes == {"steps", "sleep"}

NextPair ==
    \/ \E d \in {"d1", "d2"}, seed \in Seeds, a \in Dates, b \in Dates :
          Construct(d, seed, a, b)
    \/ \E d \in {"d1", "d2"}, t \in PairTypes, p \in Windows \cup {None} :
          GetData(d, t, p)

SpecPair == Init /\ [][NextPair]_vars

NextWhoop ==
    \/ \E email \in Emails, resp \in LoginResponses : WhoopConstruct(email, "pw", resp)
    \/ \E c \in CycleCalls(get_cycles_df_steps) : GetCyclesDf(c[1], c[2])
    \/ \E c \in CycleCalls(get_sleeps_df_steps) : GetSleepsDf(c[1], c[2])
    \/ \E c \in CycleCalls(get_workouts_df_steps) : GetWorkoutsDf(c[1], c[2])
    \/ \E c \in CycleCalls(HealthCycleSteps),
          m \in WellFormedResponses \cup OddResponses(Variants(get_health_metrics_df_steps)) :
          GetHealthMetricsDf(c[1], c[2], m)
    \/ \E p \in HeartRateParams, now \in NowInputs, r \in WellFormedResponses :
          GetHeartRateDf(p, now, r)
    \/ \E r \in OddResponses(Variants(HeartRateSteps)) :
          GetHeartRateDf(default_params_hr, MaxTick + 1, r)

SpecWhoop == Init /\ [][NextWhoop]_vars


(***************************************************************************)
(* Properties of the device facade.                                        *)
(***************************************************************************)

\* the last call was a get_data call in synthetic mode for a declared type
SyntheticCall ==
    /\ last.raised # "nocall"
    /\ ~last.real
    /\ last.data_type \in valid_data_types

\* the caller's window lies inside the synthetic range of the device
InsideSynthetic(self, params) ==
    /\ date_str_to_obj(self.init_params["synthetic_start_date"])
          <= date_str_to_obj(params["start_date"])
    /\ date_str_to_obj(params["start_date"]) <= date_str_to_obj(params["end_date"])
    /\ date_str_to_obj(params["end_date"])
          <= date_str_to_obj(self.init_params["synthetic_end_date"])

\* the records of a series whose date falls in the window, in series order
RecordsInWindow(series, data_type, params) ==
    LET In(rec) ==
          /\ date_str_to_obj(params["start_date"])
                <= date_str_to_obj(rec[DateField(data_type)])
          /\ date_str_to_obj(rec[DateField(data_type)])
                <= date_str_to_obj(params["end_date"])
    IN  SelectSeq(series, In)

\* C1: in synthetic mode, for a window inside the synthetic range, get_data
\* returns exactly the generated records whose dates fall in the window, in
\* ascending date order.
C1_WindowExact ==
    (SyntheticCall /\ last.params # None /\ InsideSynthetic(last.before, last.params))
        => /\ last.raised = ""
           /\ last.ret = RecordsInWindow(last.after.syn[last.data_type],
                                         last.data_type, last.params)

\* the ten data types the Fitbit Sense device documents
TenTypes ==
    {"sleep", "steps", "minutesVeryActive", "minutesLightlyActive",
     "minutesFairlyActive", "distance", "minutesSedentary",
     "heart_rate_day", "hrv", "distance_day"}

\* C2: get_data fails with UnsupportedDataType exactly for the data types
\* outside the ten declared ones, in real and in synthetic mode, and then
\* has fetched and generated nothing; a declared type never fails that way.
C2_UnsupportedRejected ==
    (last.raised # "nocall")
        => /\ (last.data_type \notin TenTypes)
                => /\ last.raised = "UnsupportedDataType"
                   /\ last.fetched = <<>>
                   /\ last.after = last.before
                   /\ last.rng_after = last.rng_before
           /\ (last.data_type \in TenTypes)
                => last.raised # "UnsupportedDataType"

C2_Witness ==
    /\ last.data_type = "spo2"
    /\ last.raised = "UnsupportedDataType"
    /\ last.real
    /\ ~last.before.synthetic_has_been_generated

\* what get_data returns from a device whose series has been generated
Output(self, data_type, params) ==
    _filter_synthetic(self, self.syn[data_type], data_type,
                      IF params = None THEN _default_params ELSE params)

\* C3: two devices constructed with the same seed and synthetic date range
\* return identical output from get_data for every data type and window.
C3_Deterministic ==
    \A a \in {"d1", "d2"}, b \in {"d1", "d2"} :
        (/\ devs[a].synthetic_has_been_generated
         /\ devs[b].synthetic_has_been_generated
         /\ given[a] = given[b])
            => \A t \in valid_data_types, p \in Windows \cup {None} :
                  Output(devs[a], t, p) = Output(devs[b], t, p)

\* C4: in real mode get_data calls the vendor fetch with the caller's window
\* when params are given and with the default window otherwise, and does
\* not fail for lack of a configured window.
C4_RealWindow ==
    (last.raised # "nocall" /\ last.real /\ last.data_type \in valid_data_types)
        => /\ last.raised = ""
           /\ last.fetched =
                <<IF last.params = None THEN _default_params ELSE last.params>>

\* the field the tests read from every record of a data type
ExpectedFields(data_type) ==
    IF data_type = "sleep" THEN {"minutesAsleep"}
    ELSE IF data_type \in {"steps", "distance", "minutesVeryActive",
                           "minutesLightlyActive", "minutesFairlyActive",
                           "minutesSedentary"}
    THEN {"value"}
    ELSE {}

C10_ConfigImmutable ==
    \A d \in {"d1", "d2"} :
        devs[d].constructed => devs[d].init_params = given[d]

C10_Witness ==
    /\ devs["d1"].synthetic_has_been_generated
    /\ devs["d1"].authenticated
    /\ given["d1"]["synthetic_start_date"] # Calendar[1]
    /\ last.raised = "KeyError"

(***************************************************************************)
(* Properties of the vendor client.                                        *)
(***************************************************************************)

\* the end of a heart-rate request as the code takes it: min(end, now)
EffectiveEnd(params, now) ==
    IF params["end"].t > now THEN now ELSE params["end"].t

\* C6: for a heart-rate request with start < min(end, now), every instant
\* of [start, min(end, now)] lies in some sub-range that get_heart_rate_df
\* requests.
C6_SplitCovers ==
    (/\ wlast.getter = "get_heart_rate_df"
     /\ wlast.params["start"].t < EffectiveEnd(wlast.params, wlast.now))
        => \A tau \in wlast.params["start"].t..EffectiveEnd(wlast.params, wlast.now) :
              \E k \in 1..Len(wlast.split) :
                 /\ wlast.split[k]["start"].t <= tau
                 /\ tau <= wlast.split[k]["end"].t

\* C7: when the credential exchange returns a non-success status the
\* constructor raises at once: the login request went out exactly once, no
\* token and no user id is stored, and the client never sends a GET.
C7_RejectedLoginRaises ==
    (whoop.phase # "new" /\ whoop.status # 0 /\ whoop.status # 200)
        => /\ whoop.raised = "AssertionError"
           /\ http.posts = 1
           /\ "token" \notin DOMAIN whoop.self
           /\ "user_id" \notin DOMAIN whoop.self
           /\ http.get_auths = {}
           /\ wlast.getter = "none"

C7_Witness ==
    /\ whoop.phase = "failed"
    /\ whoop.status = 401
    /\ whoop.email # ""
    /\ http.posts = 1

\* C8: every GET request carries the bearer token that a successful
\* credential exchange returned.
C8_GetsCarryGrantedToken ==
    \A a \in http.get_auths : \E tk \in http.granted : a = <<"bearer", tk>>

\* C8, as the code has it: a client constructed with a non-empty email
\* sends GET requests only with the token a successful exchange returned;
\* a client constructed with an empty email has sent no login request and
\* its GET requests carry the empty token.
C8_GetsCarryTokenUnlessFake ==
    \A a \in http.get_auths :
        IF whoop.email = ""
        THEN a = <<"bearer", "">> /\ http.posts = 0
        ELSE \E tk \in http.granted : a = <<"bearer", tk>>

C8_Witness ==
    /\ whoop.email # ""
    /\ http.granted = {"tokB"}
    /\ http.get_auths = {<<"bearer", "tokB">>}
    /\ Len(http.sent) >= 2

\* the fields a getter reads from the records of its first response
ExpectedOfResponse(getter) ==
    CASE getter = "get_cycles_df" -> StepPaths(get_cycles_df_steps)
      [] getter = "get_sleeps_df" -> StepPaths(get_sleeps_df_steps)
      [] getter = "get_workouts_df" -> StepPaths(get_workouts_df_steps)
      [] getter = "get_health_metrics_df" -> {<<"id">>, <<"days">>}
      [] getter = "get_heart_rate_df" ->
            {<<"values">>, <<"values", "0", "data">>, <<"values", "0", "time">>}
      [] OTHER -> {}

\* the records of the last call that lack a field the getter reads and
\* hold no None or empty field
LackingRecords ==
    {r \in {wlast.response[i] : i \in 1..Len(wlast.response)} :
        r.null = {} /\ r.missing \cap ExpectedOfResponse(wlast.getter) # {}}
    \cup
    {r \in {wlast.data[i] : i \in 1..Len(wlast.data)} :
        r.null = {} /\ r.missing \cap StepPaths(get_health_metrics_df_steps) # {}}

\* C9: a response record that lacks an expected field makes every
\* table-building getter fail with a lookup failure; no such record is
\* silently left out of the result.
C9_MissingFieldRaises ==
    (wlast.getter # "none" /\ LackingRecords # {}) => wlast.raised = "KeyError"

\* the two fields get_cycles_df tests for with "in" before it reads them
TestedByCycles ==
    {<<"recovery", "timestamp">>, <<"recovery", "heartRateVariabilityRmssd">>}

\* C9, as the code has it: an otherwise well-formed record that lacks a
\* field the getter reads makes the getter fail with KeyError and return no
\* table, except in get_cycles_df for a record whose recovery lacks
\* timestamp or heartRateVariabilityRmssd: that record is left out of the
\* table and no error is raised.
C9_MissingFieldRaisesUnlessTested ==
    (wlast.getter # "none")
        => \A r \in LackingRecords :
              IF wlast.getter = "get_cycles_df" /\ r.missing \subseteq TestedByCycles
              THEN /\ wlast.raised = ""
                   /\ \A i \in 1..Len(wlast.rows) : wlast.rows[i] # r.id
              ELSE /\ wlast.raised = "KeyError"
                   /\ wlast.rows = <<>>

C9_Witness ==
    /\ wlast.getter = "get_cycles_df"
    /\ Len(wlast.response) = 2
    /\ wlast.response[1].missing = {<<"recovery", "timestamp">>}
    /\ wlast.raised = ""
    /\ wlast.rows = <<2>>

\* C11: the cycles request get_workouts_df sends carries exactly the params
\* the caller gave it, as the requests of get_cycles_df and get_sleeps_df do.
C11_WorkoutsUseParams ==
    (wlast.getter \in {"get_cycles_df", "get_sleeps_df", "get_workouts_df"})
        => /\ Len(http.sent) = 1
           /\ http.sent[1].params = wlast.params

\* the vendor's limit on one heart-rate request: seven days
WeekTicks == 7 * TicksPerDay

\* C12: the sub-range requests of get_heart_rate_df go out in ascending
\* time order, each spans at most seven days, each starts exactly where the
\* one before it ends, and the responses are concatenated in request order.
C12_SegmentsSequential ==
    (wlast.getter = "get_heart_rate_df")
        => /\ \A k \in 1..Len(wlast.split) :
                 /\ wlast.split[k]["start"].t < wlast.split[k]["end"].t
                 /\ wlast.split[k]["end"].t - wlast.split[k]["start"].t <= WeekTicks
           /\ \A k \in 1..(Len(wlast.split) - 1) :
                 wlast.split[k + 1]["start"] = wlast.split[k]["end"]
           /\ Len(http.sent) <= Len(wlast.split)
           /\ \A k \in 1..Len(http.sent) : http.sent[k].params = wlast.split[k]
           /\ (wlast.raised = "" => Len(http.sent) = Len(wlast.split))
           /\ \A i \in 1..(Len(wlast.rows) - 1) : wlast.rows[i] < wlast.rows[i + 1]

C12_Witness ==
    /\ wlast.getter = "get_heart_rate_df"
    /\ Len(wlast.split) = 2
    /\ Len(http.sent) = 2
    /\ wlast.params["start"].t = 1
    /\ wlast.raised = ""
    /\ wlast.rows = <<1, 2>>

\* C13: every sub-range request of get_heart_rate_df lies inside the
\* requested window: start <= segment_start < segment_end <= min(end, now).
C13_SegmentsInsideWindow ==
    (wlast.getter = "get_heart_rate_df")
        => \A k \in 1..Len(wlast.split) :
              /\ wlast.params["start"].t <= wlast.split[k]["start"].t
              /\ wlast.split[k]["start"].t < wlast.split[k]["end"].t
              /\ wlast.split[k]["end"].t <= EffectiveEnd(wlast.params, wlast.now)

====
